---- MODULE Spec2Model ----
(***************************************************************************)
(* The three Phase 2.3 integration scripts (integrate-, complete- and      *)
(* final-phase-2-3.py): read Index.tsx, apply a fixed list of rewrite      *)
(* rules (str.replace / re.sub) to the in-memory text, write it back,      *)
(* print a line-count summary.                                             *)
(*                                                                         *)
(* Text is a sequence of tokens.  A token is exactly one of                *)
(*   "NL"  a newline together with the indentation of the line after it,   *)
(*   "SP"  a single space at a place where some pattern looks at it,       *)
(*   ";", "}", ")"  the characters the patterns' negated classes name,     *)
(*   any other string: a chunk of text that holds no newline and none of   *)
(*         ; } ) and neither starts nor ends with white space.             *)
(* With this tokenisation \s is {NL, SP}, [^;] is every token but ";",     *)
(* [^)] every token but ")", [^}] every token but "}", and [\s\S] every    *)
(* token; a literal of a pattern is a sequence of tokens.  Indentation is  *)
(* the one thing abstracted: every line carries the indentation the        *)
(* patterns were written for.                                              *)
(***************************************************************************)
EXTENDS Integers, Sequences, FiniteSets, TLC

NL == "NL"
SP == "SP"

\* ------------------------------------------------------------ bounds
\* how many copies of a landmark line a fixture may hold
MaxCopies == 2
\* how many times the script is run on the same file
MaxRuns == 2
\* how many times one rule is applied to a buffer (rule-level specification)
MaxApply == 2

\* ------------------------------------------------------------ regex engine
\* An atom is a class of tokens with a quantifier:
\*   q = "1" exactly one, "+" / "*" greedy, "+?" / "*?" lazy.
One(t) == [cls |-> "lit", tok |-> t, q |-> "1"]
Lit(s) == [i \in 1..Len(s) |-> One(s[i])]
Ws(q) == [cls |-> "ws", tok |-> "", q |-> q]
AnyTok(q) == [cls |-> "any", tok |-> "", q |-> q]
Not(t, q) == [cls |-> "not", tok |-> t, q |-> q]

InClass(a, t) ==
  CASE a.cls = "lit" -> t = a.tok
    [] a.cls = "ws"  -> t \in {NL, SP}
    [] a.cls = "any" -> TRUE
    [] a.cls = "not" -> t # a.tok

Least(S) == CHOOSE x \in S : \A y \in S : x <= y
Greatest(S) == CHOOSE x \in S : \A y \in S : x >= y

\* the longest run of tokens of class a that starts at position i
RunLen(a, buf, i) ==
  LET stops == {j \in i..Len(buf) : ~InClass(a, buf[j])}
  IN  IF stops = {} THEN Len(buf) - i + 1 ELSE Least(stops) - i

MinRep(a) == IF a.q \in {"+", "+?"} THEN 1 ELSE 0

\* the first atom from k on that carries a quantifier, Len(re) + 1 if none
NextQuantified(re, k) ==
  LET qs == {j \in k..Len(re) : re[j].q # "1"}
  IN  IF qs = {} THEN Len(re) + 1 ELSE Least(qs)

\* Backtracking match of atoms k.. of re at position i of buf: the position
\* after the match Python's re finds there, 0 when there is none.  A greedy
\* atom takes the most tokens that still let the rest match, a lazy atom the
\* fewest: the first alternative the backtracking search accepts.
RECURSIVE MatchEnd(_, _, _, _)
MatchEnd(re, k, buf, i) ==
  IF k > Len(re) THEN i
  ELSE IF re[k].q = "1"
  THEN LET kk == NextQuantified(re, k)
       IN  IF /\ i <= Len(buf)
              /\ InClass(re[k], buf[i])
              /\ i + (kk - k) - 1 <= Len(buf)
              /\ \A j \in k..(kk - 1) : InClass(re[j], buf[i + (j - k)])
           THEN MatchEnd(re, kk, buf, i + (kk - k))
           ELSE 0
  ELSE LET a == re[k]
           run == RunLen(a, buf, i)
           rest == [n \in MinRep(a)..run |-> MatchEnd(re, k + 1, buf, i + n)]
           fits == {n \in DOMAIN rest : rest[n] # 0}
       IN  IF fits = {} THEN 0
           ELSE IF a.q \in {"+", "*"} THEN rest[Greatest(fits)]
           ELSE rest[Least(fits)]

\* The leftmost non-overlapping matches of re in buf from position i on, as
\* <<first, next>> pairs (next is the position after the match).
RECURSIVE FindAll(_, _, _)
FindAll(re, buf, i) ==
  LET ends == [j \in i..Len(buf) |->
                IF InClass(re[1], buf[j]) THEN MatchEnd(re, 1, buf, j) ELSE 0]
      starts == {j \in DOMAIN ends : ends[j] # 0}
  IN  IF starts = {} THEN << >>
      ELSE << <<Least(starts), ends[Least(starts)]>> >>
           \o FindAll(re, buf, ends[Least(starts)])

\* ------------------------------------------------------------ the scripts' texts
ImportLine(what, from) == <<what, SP, "}", SP, from, ";">>

\* 'import { useApiKeyRotation } from "@/hooks/useApiKeyRotation";'
ApiKeyRotationImport ==
  ImportLine("import { useApiKeyRotation", "from @/hooks/useApiKeyRotation")
\* 'import { CreditsDisplay } from "@/components/CreditsDisplay";'
CreditsDisplayImport ==
  ImportLine("import { CreditsDisplay", "from @/components/CreditsDisplay")
\* final: import_pattern, the ApiKeyTestDialog import line
import_pattern ==
  ImportLine("import { ApiKeyTestDialog", "from @/components/ApiKeyTestDialog")

hook_imports_short ==
     ImportLine("import { useDisplayConfirmation", "from @/hooks/useDisplayConfirmation")
  \o <<NL>>
  \o ImportLine("import { useStorageSync", "from @/hooks/useStorageSync")
hook_imports ==
     ImportLine("import { useDisplayConfirmation", "from @/hooks/useDisplayConfirmation")
  \o <<NL>>
  \o ImportLine("import { useStorageSync", "from @/hooks/useStorageSync")
  \o <<NL>>
  \o ImportLine("import { usePlayerInitialization", "from @/hooks/usePlayerInitialization")

component_imports ==
     ImportLine("import { NowPlayingTicker", "from @/components/NowPlayingTicker")
  \o <<NL>>
  \o ImportLine("import { PlayerClosedNotification", "from @/components/PlayerClosedNotification")
  \o <<NL>>
  \o ImportLine("import { MiniPlayer", "from @/components/MiniPlayer")
  \o <<NL>>
  \o ImportLine("import { SearchButton", "from @/components/SearchButton")
  \o <<NL>>
  \o ImportLine("import { UpcomingQueue", "from @/components/UpcomingQueue")
  \o <<NL>>
  \o ImportLine("import { FooterControls", "from @/components/FooterControls")

\* the pieces of the display-confirmation block the patterns name
CallbacksComment ==
  "// Display confirmation callbacks - must be defined before usePlayerManager"
StateDecl == "const [pendingDisplayConfirmation, setPendingDisplayConfirmation] ="
NeededDecl == "const handleDisplayConfirmationNeeded = useCallback("
ResponseDecl == "const handleDisplayConfirmationResponse = useCallback("
CancelDecl == "const handleDisplayConfirmationCancel = useCallback("

\* integrate: old_display_logic, a pattern with every metacharacter escaped,
\* that is the literal 34-line block, one line of the source per line here
old_display_logic ==
     <<CallbacksComment, NL>>
  \o <<StateDecl, SP, "useState", "<{", NL>>
  \o <<"displayInfo: DisplayInfo", ";", NL>>
  \o <<"onConfirm: (useFullscreen: boolean, rememberChoice: boolean", ")", SP, "=> void", ";", NL>>
  \o <<"onCancel: (", ")", SP, "=> void", ";", NL>>
  \o <<"}", SP, "| null>(null", ")", ";", NL>>
  \o <<NL>>
  \o <<NeededDecl, NL>>
  \o <<"(", NL>>
  \o <<"displayInfo: DisplayInfo,", NL>>
  \o <<"onConfirm: (useFullscreen: boolean, rememberChoice: boolean", ")", SP, "=> void,", NL>>
  \o <<"onCancel: (", ")", SP, "=> void,", NL>>
  \o <<")", SP, "=> {", NL>>
  \o <<"setPendingDisplayConfirmation({ displayInfo, onConfirm, onCancel", SP, "}", ")", ";", NL>>
  \o <<"}", ",", NL>>
  \o <<"[],", NL>>
  \o <<")", ";", NL>>
  \o <<NL>>
  \o <<ResponseDecl, NL>>
  \o <<"(useFullscreen: boolean, rememberChoice: boolean", ")", SP, "=> {", NL>>
  \o <<"if (pendingDisplayConfirmation", ")", SP, "{", NL>>
  \o <<"pendingDisplayConfirmation.onConfirm(useFullscreen, rememberChoice", ")", ";", NL>>
  \o <<"setPendingDisplayConfirmation(null", ")", ";", NL>>
  \o <<"}", NL>>
  \o <<"}", ",", NL>>
  \o <<"[pendingDisplayConfirmation],", NL>>
  \o <<")", ";", NL>>
  \o <<NL>>
  \o <<CancelDecl, "(", ")", SP, "=> {", NL>>
  \o <<"if (pendingDisplayConfirmation", ")", SP, "{", NL>>
  \o <<"pendingDisplayConfirmation.onCancel(", ")", ";", NL>>
  \o <<"setPendingDisplayConfirmation(null", ")", ";", NL>>
  \o <<"}", NL>>
  \o <<"}", ",", SP, "[pendingDisplayConfirmation]", ")", ";">>

\* complete: old_display_pattern
old_display_pattern ==
     Lit(<<CallbacksComment>>) \o <<Ws("+")>>
  \o Lit(<<StateDecl, SP, "useState">>) \o <<Not(";", "+"), One(";")>>
  \o <<Ws("+")>> \o Lit(<<NeededDecl>>)
  \o <<Not(")", "+"), One(")"), Not(";", "+"), One(";")>>
  \o <<Ws("*")>> \o Lit(<<ResponseDecl>>)
  \o <<Not(")", "+"), One(")"), Not(";", "+"), One(";")>>
  \o <<Ws("*")>> \o Lit(<<CancelDecl>>)
  \o <<Not(")", "+"), One(")"), Not(";", "+"), One(";")>>

\* final: display_conf_pattern
display_conf_pattern ==
     Lit(<<StateDecl>>) \o <<Ws("+")>> \o Lit(<<"useState", "<{">>)
  \o <<Not("}", "+")>> \o Lit(<<"}", SP, "| null>(null", ")", ";">>)
  \o <<AnyTok("*?")>> \o Lit(<<CancelDecl>>)
  \o <<Not("}", "+")>> \o Lit(<<"}", ")", ";">>)

\* new_display_logic / new_display / display_conf_replacement
new_display_logic ==
  <<"// Display confirmation hook", NL,
    "const displayConfirmation = useDisplayConfirmation(", ")", ";">>

\* 'handleDisplayConfirmationNeeded,' and the prefix the rename puts before it:
\* the new text 'displayConfirmation.handleDisplayConfirmationNeeded,' ends
\* with the old one
CallSite == "handleDisplayConfirmationNeeded,"
CallSitePrefix == "displayConfirmation."

storage_sync_addition ==
  <<NL, "// Storage synchronization hook (player window communication", ")",
    NL, "useStorageSync({",
    NL, "state,", NL, "setState,", NL, "addLog,", NL, "handleVideoEnded,",
    NL, "toast,", NL, "}", ")", ";">>
player_init_addition ==
  <<NL, NL, "// Player initialization hook (auto-start first song", ")",
    NL, "usePlayerInitialization({",
    NL, "state,", NL, "initializePlayer,", NL, "playNextSong,",
    NL, "}", ")", ";">>
\* integrate, complete: hooks_addition
hooks_addition == storage_sync_addition \o player_init_addition

\* '  } = useApiKeyRotation(state, setState, toast);'
RotationLandmark ==
  <<"}", SP, "= useApiKeyRotation(state, setState, toast", ")", ";">>

\* complete: old_autoplay_pattern
old_autoplay_pattern ==
     Lit(<<"// Enhanced autoplay logic - start songs when playlist is ready">>)
  \o <<Ws("+")>>
  \o Lit(<<"const hasStartedFirstSongRef = useRef(false", ")", ";">>)
  \o <<AnyTok("+?")>> \o Lit(<<"], [">>)
  \o <<AnyTok("+?")>> \o Lit(<<"playNextSong,">>) \o <<Ws("+")>>
  \o Lit(<<"]", ")", ";">>)

\* complete: old_storage_pattern
old_storage_pattern ==
     Lit(<<"// Enhanced video end handling">>)
  \o <<AnyTok("+?")>> \o Lit(<<"// Emergency recovery event listener">>)
  \o <<AnyTok("+?")>> \o Lit(<<"], [setState, toast]", ")", ";">>)

\* complete: old_dialog
old_dialog ==
     Lit(<<"{pendingDisplayConfirmation && (">>) \o <<Ws("+")>>
  \o Lit(<<"<DisplayConfirmationDialog">>) \o <<Ws("+")>>
  \o Lit(<<"isOpen={true", "}">>) \o <<Ws("+")>>
  \o Lit(<<"displayInfo={pendingDisplayConfirmation.displayInfo", "}">>) \o <<Ws("+")>>
  \o Lit(<<"onConfirm={handleDisplayConfirmationResponse", "}">>) \o <<Ws("+")>>
  \o Lit(<<"onCancel={handleDisplayConfirmationCancel", "}">>) \o <<Ws("+")>>
  \o Lit(<<"/>">>) \o <<Ws("+")>> \o Lit(<<")", "}">>)

\* final: dialog_pattern
dialog_pattern ==
     Lit(<<"{pendingDisplayConfirmation && (">>) \o <<Ws("*")>>
  \o Lit(<<"<DisplayConfirmationDialog">>) \o <<Ws("+")>>
  \o Lit(<<"displayInfo={pendingDisplayConfirmation.displayInfo", "}">>) \o <<Ws("+")>>
  \o Lit(<<"onConfirm={handleDisplayConfirmationResponse", "}">>) \o <<Ws("+")>>
  \o Lit(<<"onCancel={handleDisplayConfirmationCancel", "}">>) \o <<Ws("+")>>
  \o Lit(<<"/>">>) \o <<Ws("*")>> \o Lit(<<")", "}">>)

\* new_dialog / dialog_replacement
new_dialog ==
  <<"<DisplayConfirmationDialog",
    NL, "isOpen={!!displayConfirmation.pendingDisplayConfirmation", "}",
    NL, "displayInfo={displayConfirmation.pendingDisplayConfirmation?.displayInfo || null", "}",
    NL, "onConfirm={displayConfirmation.handleDisplayConfirmationResponse", "}",
    NL, "onCancel={displayConfirmation.handleDisplayConfirmationCancel", "}",
    NL, "/>">>

\* final: the six markup patterns and their replacements
CreditsMovedComment ==
  <<"{/* Credits display has been moved to the CreditsDisplay component */", "}">>

now_playing_pattern ==
     Lit(<<"{/* Now Playing Ticker - Responsive positioning and sizing */", "}">>)
  \o <<AnyTok("*?")>> \o Lit(<<"</Card>">>) \o <<Ws("*")>> \o Lit(<<"</div>">>)
now_playing_replacement ==
  <<"{/* Now Playing Ticker */", "}",
    NL, "<NowPlayingTicker currentlyPlaying={state.currentlyPlaying", "}", SP, "/>">>

player_closed_pattern ==
     Lit(<<"{/* Player Closed Notification - Responsive positioning */", "}">>)
  \o <<AnyTok("*?")>> \o Lit(CreditsMovedComment)
player_closed_replacement ==
     <<"{/* Player Window Closed Warning */", "}",
       NL, "<PlayerClosedNotification",
       NL, "playerWindow={state.playerWindow", "}",
       NL, "isPlayerRunning={state.isPlayerRunning", "}",
       NL, "onReopenPlayer={initializePlayer", "}",
       NL, "/>", NL, NL>>
  \o CreditsMovedComment

mini_player_pattern ==
     Lit(<<"{/* Search results embedded player */", "}">>)
  \o <<AnyTok("*?")>> \o Lit(<<"</div>">>) \o <<Ws("*")>> \o Lit(<<")">>)
  \o <<Ws("*")>> \o Lit(<<"}">>) \o <<Ws("*")>> \o Lit(<<"</div>">>)
mini_player_replacement ==
  <<"{/* Mini Player */", "}",
    NL, "<MiniPlayer",
    NL, "videoId={state.currentVideoId", "}",
    NL, "showMiniPlayer={state.showMiniPlayer", "}",
    NL, "/>">>

search_button_pattern ==
     Lit(<<"{/* Responsive search button */", "}">>)
  \o <<AnyTok("*?")>> \o Lit(<<"</Button>">>) \o <<Ws("*")>> \o Lit(<<"</div>">>)
search_button_replacement ==
  <<"{/* Search Button */", "}",
    NL, "<SearchButton",
    NL, "onClick={(", ")", SP, "=>",
    NL, "setState((prev", ")", SP, "=> ({",
    NL, "...prev,",
    NL, "isSearchOpen: true,",
    NL, "showKeyboard: true,",
    NL, "showSearchResults: false,",
    NL, "}", ")", ")",
    NL, "}",
    NL, "/>">>

upcoming_pattern ==
     Lit(<<"{/* Test Mode Indicator - positioned above Coming Up ticker */", "}">>)
  \o <<AnyTok("*?")>> \o Lit(<<"</div>">>) \o <<Ws("*")>> \o Lit(<<"</div>">>)
upcoming_replacement ==
  <<"{/* Upcoming Queue */", "}",
    NL, "<UpcomingQueue",
    NL, "upcomingTitles={getUpcomingTitles(", ")", "}",
    NL, "testMode={state.testMode", "}",
    NL, "/>">>

footer_pattern ==
     Lit(<<"{/* Responsive admin button */", "}">>)
  \o <<AnyTok("*?")>> \o Lit(<<"</Button>">>) \o <<Ws("*")>> \o Lit(<<"</div>">>)
footer_replacement ==
  <<"{/* Footer Controls */", "}",
    NL, "<FooterControls",
    NL, "onOpenAdmin={(", ")", SP, "=>",
    NL, "setState((prev", ")", SP, "=> ({ ...prev, isAdminOpen: true", SP, "}", ")", ")",
    NL, "}",
    NL, "/>">>

\* ------------------------------------------------------------ rules
\* A rule: the locator re, and the text that takes the place of each match:
\* pre, then the match itself when keep, then post.  kind is the rule's kind
\* in the scripts' step comments.
Insert(name, kind, landmark, post) ==
  [name |-> name, kind |-> kind, re |-> Lit(landmark),
   pre |-> << >>, keep |-> TRUE, post |-> post]
Replace(name, kind, re, new) ==
  [name |-> name, kind |-> kind, re |-> re,
   pre |-> << >>, keep |-> FALSE, post |-> new]
Rename(name, kind, old, prefix) ==
  [name |-> name, kind |-> kind, re |-> Lit(<<old>>),
   pre |-> <<prefix>>, keep |-> TRUE, post |-> << >>]

IntegrateRulesRenameLast ==
  << Insert("hook imports", "import", ApiKeyRotationImport, <<NL>> \o hook_imports),
     Insert("component imports", "import", CreditsDisplayImport, <<NL>> \o component_imports),
     Replace("display confirmation", "logic", Lit(old_display_logic), new_display_logic),
     Insert("hooks", "hook", RotationLandmark, <<NL>> \o hooks_addition),
     Rename("call site", "rename", CallSite, CallSitePrefix) >>
\* integrate_phase_2_3, steps 1 to 5
IntegrateRules ==
  << Insert("hook imports", "import", ApiKeyRotationImport, <<NL>> \o hook_imports),
     Insert("component imports", "import", CreditsDisplayImport, <<NL>> \o component_imports),
     Replace("display confirmation", "logic", Lit(old_display_logic), new_display_logic),
     Rename("call site", "rename", CallSite, CallSitePrefix),
     Insert("hooks", "hook", RotationLandmark, <<NL>> \o hooks_addition) >>

\* integrate_complete, parts 1 to 6
CompleteRules ==
  << Insert("hook imports", "import", ApiKeyRotationImport, <<NL>> \o hook_imports),
     Insert("component imports", "import", CreditsDisplayImport, <<NL>> \o component_imports),
     Replace("display confirmation", "logic", old_display_pattern, new_display_logic),
     Rename("call site", "rename", CallSite, CallSitePrefix),
     Insert("hooks", "hook", RotationLandmark, <<NL>> \o hooks_addition),
     Replace("old autoplay", "removal", old_autoplay_pattern, << >>),
     Replace("old storage sync", "removal", old_storage_pattern, << >>),
     Replace("dialog", "markup", old_dialog, new_dialog) >>

FinalRulesHooksAtRotation ==
  << Insert("hook imports", "import", import_pattern, <<NL>> \o hook_imports),
     Insert("component imports", "import", import_pattern, <<NL>> \o component_imports),
     Replace("display confirmation", "logic", display_conf_pattern, new_display_logic),
     Insert("storage sync", "hook", RotationLandmark, storage_sync_addition),
     Insert("player init", "hook", RotationLandmark, player_init_addition),
     Rename("call site", "rename", CallSite, CallSitePrefix),
     Replace("dialog", "markup", dialog_pattern, new_dialog),
     Replace("now playing", "markup", now_playing_pattern, now_playing_replacement),
     Replace("player closed", "markup", player_closed_pattern, player_closed_replacement),
     Replace("mini player", "markup", mini_player_pattern, mini_player_replacement),
     Replace("search button", "markup", search_button_pattern, search_button_replacement),
     Replace("upcoming queue", "markup", upcoming_pattern, upcoming_replacement),
     Replace("footer controls", "markup", footer_pattern, footer_replacement) >>
\* main of final-phase-2-3.py, steps 1 to 13
FinalRules ==
  << Insert("hook imports", "import", import_pattern, <<NL>> \o hook_imports),
     Insert("component imports", "import", import_pattern, <<NL>> \o component_imports),
     Replace("display confirmation", "logic", display_conf_pattern, new_display_logic),
     Insert("storage sync", "hook", new_display_logic, storage_sync_addition),
     Insert("player init", "hook", storage_sync_addition, player_init_addition),
     Rename("call site", "rename", CallSite, CallSitePrefix),
     Replace("dialog", "markup", dialog_pattern, new_dialog),
     Replace("now playing", "markup", now_playing_pattern, now_playing_replacement),
     Replace("player closed", "markup", player_closed_pattern, player_closed_replacement),
     Replace("mini player", "markup", mini_player_pattern, mini_player_replacement),
     Replace("search button", "markup", search_button_pattern, search_button_replacement),
     Replace("upcoming queue", "markup", upcoming_pattern, upcoming_replacement),
     Replace("footer controls", "markup", footer_pattern, footer_replacement) >>

Variants == {"integrate", "complete", "final"}
Rules(v) ==
  CASE v = "integrate" -> IntegrateRules
    [] v = "complete"  -> CompleteRules
    [] v = "final"     -> FinalRules

\* ------------------------------------------------------------ applying a rule
\* what takes the place of one match m
Replacement(rule, m) == rule.pre \o (IF rule.keep THEN m ELSE << >>) \o rule.post

\* buf from position from on, with each of spans k.. replaced
RECURSIVE Splice(_, _, _, _, _)
Splice(rule, buf, spans, k, from) ==
  IF k > Len(spans) THEN SubSeq(buf, from, Len(buf))
  ELSE    SubSeq(buf, from, spans[k][1] - 1)
       \o Replacement(rule, SubSeq(buf, spans[k][1], spans[k][2] - 1))
       \o Splice(rule, buf, spans, k + 1, spans[k][2])

\* the marks of the tokens of Splice's result: a token a rule matched or
\* wrote is marked 1, every other token keeps its mark
RECURSIVE SpliceMarks(_, _, _, _, _, _)
SpliceMarks(rule, buf, mk, spans, k, from) ==
  IF k > Len(spans) THEN SubSeq(mk, from, Len(mk))
  ELSE    SubSeq(mk, from, spans[k][1] - 1)
       \o [i \in 1..Len(Replacement(rule, SubSeq(buf, spans[k][1], spans[k][2] - 1))) |-> 1]
       \o SpliceMarks(rule, buf, mk, spans, k + 1, spans[k][2])

ApplyFirstOnly(rule, buf, mk) ==
  LET all == FindAll(rule.re, buf, 1)
      spans == IF all = << >> THEN all ELSE <<all[1]>>
  IN  [out |-> Splice(rule, buf, spans, 1, 1), n |-> Len(spans),
       marks |-> SpliceMarks(rule, buf, mk, spans, 1, 1), hit |-> FALSE]
ApplyDropsLandmark(rule, buf, mk) ==
  LET spans == FindAll(rule.re, buf, 1)
      r == [rule EXCEPT !.keep = FALSE]
  IN  [out |-> Splice(r, buf, spans, 1, 1), n |-> Len(spans),
       marks |-> SpliceMarks(r, buf, mk, spans, 1, 1), hit |-> FALSE]
\* content.replace(old, new) and re.sub(pattern, repl, content): every
\* non-overlapping match, leftmost first, is replaced.  out is the new text,
\* n the number of replacements, marks the new marks, hit whether a match
\* held a token an earlier rule of the run had matched or written.
Apply(rule, buf, mk) ==
  LET spans == FindAll(rule.re, buf, 1)
  IN  [out |-> Splice(rule, buf, spans, 1, 1), n |-> Len(spans),
       marks |-> SpliceMarks(rule, buf, mk, spans, 1, 1),
       hit |-> \E k \in 1..Len(spans) :
                 \E i \in spans[k][1] .. spans[k][2] - 1 : mk[i] = 1]

\* ------------------------------------------------------------ line counts
CountNL(buf) == Cardinality({i \in 1..Len(buf) : buf[i] = NL})
\* len(content.split('\n')): integrate, complete
SplitLen(buf) == CountNL(buf) + 1
\* len(content.splitlines()): final
SplitlinesLen(buf) ==
  IF buf = << >> THEN 0
  ELSE CountNL(buf) + (IF buf[Len(buf)] = NL THEN 0 ELSE 1)
LineCount(v, buf) == IF v = "final" THEN SplitlinesLen(buf) ELSE SplitLen(buf)

\* ------------------------------------------------------------ fixtures
\* Index.tsx as the scripts may find it, put together from the parts the
\* rules look for.
BlockShapes == {"none", "original", "flat", "hooked"}
DialogShapes == {"none", "plain", "isOpen"}

\* a block of the same four declarations written on one line each
FlatBlock ==
     <<CallbacksComment, NL>>
  \o <<StateDecl, SP, "useState", "<{", SP, "displayInfo: DisplayInfo", SP, "}", SP,
       "| null>(null", ")", ";", NL>>
  \o <<NeededDecl, "(info", ")", SP, "=> setPending(info", ")", ",", SP, "[]", ")", ";", NL>>
  \o <<ResponseDecl, "(full", ")", SP, "=> respond(full", ")", ",", SP, "[]", ")", ";", NL>>
  \o <<CancelDecl, "(", ")", SP, "=> { cancel(", ")", SP, "}", ")", ";">>

Block(shape) ==
  CASE shape = "none"     -> << >>
    [] shape = "original" -> old_display_logic \o <<NL>>
    [] shape = "flat"     -> FlatBlock \o <<NL>>
    [] shape = "hooked"   -> new_display_logic \o <<NL>>

RECURSIVE Copies(_, _)
Copies(n, s) == IF n = 0 THEN << >> ELSE s \o Copies(n - 1, s)

ImportsPart(api, others) ==
     Copies(api, ApiKeyRotationImport \o <<NL>>)
  \o (IF others THEN import_pattern \o <<NL>> \o CreditsDisplayImport \o <<NL>>
      ELSE << >>)

BodyPart ==
     <<"const player = usePlayerManager(", NL, CallSite, NL, ")", ";", NL>>
  \o <<"const {", NL, "rotateKey,", NL>> \o RotationLandmark \o <<NL>>
  \o <<"// Enhanced autoplay logic - start songs when playlist is ready", NL,
       "const hasStartedFirstSongRef = useRef(false", ")", ";", NL,
       "useEffect((", ")", SP, "=> {", NL, "playNextSong(", ")", ";", NL,
       "}", ",", SP, "[state.playlist", "], [", NL,
       "state.isPlayerRunning,", NL, "playNextSong,", NL, "]", ")", ";", NL>>
  \o <<"// Enhanced video end handling", NL,
       "const handleStorageChange = useCallback(", "(", ")", SP, "=> {", "}", ")", ";", NL,
       "// Emergency recovery event listener", NL,
       "useEffect((", ")", SP, "=> {", "}", ",", SP,
       "], [setState, toast]", ")", ";", NL>>

DialogPart(shape) ==
  IF shape = "none" THEN << >>
  ELSE    <<"{pendingDisplayConfirmation && (", NL, "<DisplayConfirmationDialog", NL>>
       \o (IF shape = "isOpen" THEN <<"isOpen={true", "}", NL>> ELSE << >>)
       \o <<"displayInfo={pendingDisplayConfirmation.displayInfo", "}", NL,
            "onConfirm={handleDisplayConfirmationResponse", "}", NL,
            "onCancel={handleDisplayConfirmationCancel", "}", NL,
            "/>", NL, ")", "}", NL>>

MarkupPart(shape) ==
  IF shape = "none" THEN << >>
  ELSE    <<"return (", NL>> \o DialogPart(shape)
       \o <<"{/* Now Playing Ticker - Responsive positioning and sizing */", "}", NL,
            "<div>", NL, "<Card>", NL, "</Card>", NL, "</div>", NL>>
       \o <<"{/* Player Closed Notification - Responsive positioning */", "}", NL,
            "<div>", NL, "</div>", NL>> \o CreditsMovedComment \o <<NL>>
       \o <<"{/* Search results embedded player */", "}", NL,
            "{state.showMiniPlayer && (", NL, "<div>", NL, "</div>", NL,
            ")", "}", NL, "</div>", NL>>
       \o <<"{/* Responsive search button */", "}", NL,
            "<div>", NL, "<Button>", NL, "</Button>", NL, "</div>", NL>>
       \o <<"{/* Test Mode Indicator - positioned above Coming Up ticker */", "}", NL,
            "<div>", NL, "<div>", NL, "</div>", NL, "</div>", NL>>
       \o <<"{/* Responsive admin button */", "}", NL,
            "<div>", NL, "<Button>", NL, "</Button>", NL, "</div>", NL>>
       \o <<")", ";", NL>>

Fixture(f) ==
     ImportsPart(f.api, f.others)
  \o <<"const Index = (", ")", SP, "=> {", NL>>
  \o Block(f.block)
  \o (IF f.body THEN BodyPart ELSE << >>)
  \o MarkupPart(f.markup)
  \o <<"}", ";", NL>>

FixtureChoices ==
  [api : 0..MaxCopies, others : BOOLEAN, block : BlockShapes,
   body : BOOLEAN, markup : DialogShapes]

\* every file content the model starts from, the empty file among them
Inputs == {Fixture(f) : f \in FixtureChoices} \cup {<< >>}

\* ------------------------------------------------------------ a run of a script
VARIABLES
  variant,        \* which script runs
  disk,           \* the content of Index.tsx on disk
  start,          \* the content of Index.tsx when the run began
  content,        \* the script's variable content
  original_lines, \* the script's variable original_lines
  pc,             \* "read", "rules", "write", "report", "exit"
  step,           \* the index of the next rule
  prev,           \* content before the last rule applied
  marks,          \* per token of content: 1 when a rule of this run matched or wrote it
  trace,          \* per rule applied in this run: its kind, its number of replacements, hit
  writes,         \* how many times the run has written the file
  error,          \* where the run raised: "none", "read", "rule", "write", "report"
  printed,        \* "none", "summary" or "error"
  exit,           \* the exit status, -1 while the run goes on
  run             \* the number of the run (Spec), of applications (RuleSpec)

vars == <<variant, disk, start, content, original_lines, pc, step, prev, marks,
          trace, writes, error, printed, exit, run>>

NoMarks(buf) == [i \in 1..Len(buf) |-> 0]

Init ==
  /\ variant \in Variants
  /\ disk \in Inputs
  /\ start = disk
  /\ content = << >>
  /\ original_lines = 0
  /\ pc = "read"
  /\ step = 1
  /\ prev = << >>
  /\ marks = << >>
  /\ trace = << >>
  /\ writes = 0
  /\ error = "none"
  /\ printed = "none"
  /\ exit = -1
  /\ run = 1

\* an exception leaves the function: integrate and complete catch it, print
\* it and sys.exit(1); final has no handler, Python prints the traceback and
\* exits with status 1
Raise(where) ==
  /\ error' = where
  /\ printed' = "error"
  /\ exit' = 1
  /\ pc' = "exit"

\* content = read_file(path); original_lines = len(...)
ReadOk ==
  /\ pc = "read"
  /\ content' = disk
  /\ original_lines' = LineCount(variant, disk)
  /\ prev' = disk
  /\ marks' = NoMarks(disk)
  /\ pc' = IF Len(Rules(variant)) = 0 THEN "write" ELSE "rules"
  /\ UNCHANGED <<variant, disk, start, step, trace, writes, error, printed, exit, run>>

\* open() raises: the file is missing or unreadable
ReadFails ==
  /\ pc = "read"
  /\ Raise("read")
  /\ UNCHANGED <<variant, disk, start, content, original_lines, step, prev, marks,
                 trace, writes, run>>

RuleStepWritesThrough ==
  /\ pc = "rules"
  /\ LET r == Apply(Rules(variant)[step], content, marks)
     IN  /\ content' = r.out
         /\ disk' = r.out
         /\ marks' = r.marks
         /\ trace' = Append(trace, [kind |-> Rules(variant)[step].kind,
                                    n |-> r.n, hit |-> r.hit])
  /\ prev' = content
  /\ step' = step + 1
  /\ pc' = IF step = Len(Rules(variant)) THEN "write" ELSE "rules"
  /\ UNCHANGED <<variant, start, original_lines, writes, error, printed, exit, run>>
\* one content = content.replace(...) or content = re.sub(...) statement
RuleStep ==
  /\ pc = "rules"
  /\ LET r == Apply(Rules(variant)[step], content, marks)
     IN  /\ content' = r.out
         /\ marks' = r.marks
         /\ trace' = Append(trace, [kind |-> Rules(variant)[step].kind,
                                    n |-> r.n, hit |-> r.hit])
  /\ prev' = content
  /\ step' = step + 1
  /\ pc' = IF step = Len(Rules(variant)) THEN "write" ELSE "rules"
  /\ UNCHANGED <<variant, disk, start, original_lines, writes, error, printed, exit, run>>

\* an exception in the middle of the rules (the interpreter's, such as
\* MemoryError: no rule raises one of its own)
RuleRaises ==
  /\ pc = "rules"
  /\ Raise("rule")
  /\ UNCHANGED <<variant, disk, start, content, original_lines, step, prev, marks,
                 trace, writes, run>>

\* write_file(path, content)
WriteOk ==
  /\ pc = "write"
  /\ disk' = content
  /\ writes' = writes + 1
  /\ pc' = "report"
  /\ UNCHANGED <<variant, start, content, original_lines, step, prev, marks, trace,
                 error, printed, exit, run>>

\* open(path, 'w') raises: the file is not writable
WriteFails ==
  /\ pc = "write"
  /\ Raise("write")
  /\ UNCHANGED <<variant, disk, start, content, original_lines, step, prev, marks,
                 trace, writes, run>>

\* final and complete divide by original_lines; only splitlines() gives 0
DividesByZero == variant = "final" /\ original_lines = 0

\* the summary: new_lines, the difference, and in final and complete the
\* percentage (reduction / original_lines) * 100
ReportOk ==
  /\ pc = "report"
  /\ ~DividesByZero
  /\ printed' = "summary"
  /\ exit' = 0
  /\ pc' = "exit"
  /\ UNCHANGED <<variant, disk, start, content, original_lines, step, prev, marks,
                 trace, writes, error, run>>

\* ZeroDivisionError, before any line of the summary is printed
ReportFails ==
  /\ pc = "report"
  /\ DividesByZero
  /\ Raise("report")
  /\ UNCHANGED <<variant, disk, start, content, original_lines, step, prev, marks,
                 trace, writes, run>>

\* the same script is run again on the file it has written
Rerun ==
  /\ pc = "exit"
  /\ exit = 0
  /\ run < MaxRuns
  /\ run' = run + 1
  /\ start' = disk
  /\ content' = << >>
  /\ original_lines' = 0
  /\ pc' = "read"
  /\ step' = 1
  /\ prev' = << >>
  /\ marks' = << >>
  /\ trace' = << >>
  /\ writes' = 0
  /\ error' = "none"
  /\ printed' = "none"
  /\ exit' = -1
  /\ UNCHANGED <<variant, disk>>

Next ==
  \/ ReadOk
  \/ ReadFails
  \/ RuleStep
  \/ RuleRaises
  \/ WriteOk
  \/ WriteFails
  \/ ReportOk
  \/ ReportFails
  \/ Rerun

Spec == Init /\ [][Next]_vars

\* ------------------------------------------------------------ one rule, applied
\* A rule of a script as a function of the buffer: Init draws the script, the
\* rule (step) and the buffer (disk), ApplyRule applies the rule to content.
RuleInit ==
  /\ variant \in Variants
  /\ step \in 1..Len(Rules(variant))
  /\ disk \in Inputs
  /\ start = disk
  /\ content = disk
  /\ prev = disk
  /\ marks = NoMarks(disk)
  /\ original_lines = LineCount(variant, disk)
  /\ pc = "rules"
  /\ trace = << >>
  /\ writes = 0
  /\ error = "none"
  /\ printed = "none"
  /\ exit = -1
  /\ run = 0

ApplyRule ==
  /\ run < MaxApply
  /\ LET r == Apply(Rules(variant)[step], content, marks)
     IN  /\ content' = r.out
         /\ marks' = r.marks
         /\ trace' = Append(trace, [kind |-> Rules(variant)[step].kind,
                                    n |-> r.n, hit |-> r.hit])
  /\ prev' = content
  /\ run' = run + 1
  /\ UNCHANGED <<variant, disk, start, original_lines, pc, step, writes, error,
                 printed, exit>>

RuleNext == ApplyRule

RuleSpec == RuleInit /\ [][RuleNext]_vars

\* ------------------------------------------------------------ properties
\* how many times the text occurs in buf (non-overlapping, leftmost first)
Occ(text, buf) == Len(FindAll(Lit(text), buf, 1))
Has(tok, buf) == \E i \in 1..Len(buf) : buf[i] = tok
Last(s) == s[Len(s)]
Finished == pc \in {"write", "report", "exit"} /\ error \notin {"read", "rule"}

\* C1: the file is written at most once, only after every rule has been
\* applied, and as long as the run has not written (so also when it aborted
\* in the read or in a rule) the file on disk is what it was at the start.
C1_WriteOnceAtEnd ==
  /\ writes <= 1
  /\ (writes = 1 => Len(trace) = Len(Rules(variant)))
  /\ (writes = 0 => disk = start)
  /\ (error \in {"read", "rule"} => writes = 0 /\ disk = start)

\* a run that aborted in a rule after the buffer had changed
C1_Witness ==
  /\ pc = "exit"
  /\ error = "rule"
  /\ Len(trace) >= 1
  /\ content # start
  /\ disk = start

\* the text a rule puts in the place of the match m, as the claim words it:
\* the landmark with the new text next to it (anchor-and-insert), or the new
\* text alone (span-replace)
NewText(rule, m) ==
  IF rule.keep THEN rule.pre \o m \o rule.post ELSE rule.post

\* new is old with exactly the matches of the rule replaced, and every token
\* outside them the same, in the same order
FrameHolds(rule, old, new) ==
  LET spans == FindAll(rule.re, old, 1)
      n == Len(spans)
      txt == [k \in 1..n |-> NewText(rule, SubSeq(old, spans[k][1], spans[k][2] - 1))]
      off[k \in 0..n] ==
        IF k = 0 THEN 0
        ELSE off[k - 1] + Len(txt[k]) - (spans[k][2] - spans[k][1])
      before(i) == Cardinality({k \in 1..n : spans[k][2] <= i})
      inside(i) == \E k \in 1..n : spans[k][1] <= i /\ i < spans[k][2]
  IN  /\ Len(new) = Len(old) + off[n]
      /\ \A k \in 1..n :
           SubSeq(new, spans[k][1] + off[k - 1],
                       spans[k][1] + off[k - 1] + Len(txt[k]) - 1) = txt[k]
      /\ \A i \in 1..Len(old) :
           ~inside(i) => new[i + off[before(i)]] = old[i]

\* C2: for every rule and every buffer, applying the rule replaces exactly
\* the spans its locator matches (or inserts its text right after the
\* landmark) and leaves every token outside them as it was, in order.
C2_ExactlyMatchedSpansReplaced ==
  run >= 1 => FrameHolds(Rules(variant)[step], prev, content)

\* a rule that matched twice and made the buffer longer
C2_Witness ==
  /\ run >= 1
  /\ Last(trace).n >= 2
  /\ Len(content) > Len(prev)

\* C3: a rule makes as many replacements as its locator has matches (none,
\* and no change, when there is none), raises nothing, and the run goes on
\* to write the file and to finish normally, even if no rule matched.
C3_SilentCardinality ==
  /\ (pc \in {"rules", "write"} /\ Len(trace) >= 1 =>
        /\ Last(trace).n = Len(FindAll(Rules(variant)[Len(trace)].re, prev, 1))
        /\ (Last(trace).n = 0 => content = prev))
  /\ (pc = "exit" /\ error \notin {"read", "rule", "write"} =>
        /\ Len(trace) = Len(Rules(variant))
        /\ writes = 1
        /\ error = "none"
        /\ exit = 0)

\* C4: a run that met a missing, unreadable or unwritable file (or another
\* exception) prints an error and exits non-zero; every other run, on any
\* file content, the empty one included, prints the summary and exits 0.
C4_ExitStatus ==
  pc = "exit" =>
    IF error \in {"read", "rule", "write"}
    THEN exit # 0 /\ printed = "error"
    ELSE exit = 0 /\ printed = "summary"

\* the order of the rule kinds the claim gives for every script
ClaimedRank(kind) ==
  CASE kind = "import"  -> 1
    [] kind = "logic"   -> 2
    [] kind = "rename"  -> 3
    [] kind = "hook"    -> 4
    [] kind = "removal" -> 5
    [] kind = "markup"  -> 6
\* the order with final's own: its hook insertions come before its rename
ScriptRank(v, kind) ==
  IF v = "final" /\ kind = "rename" THEN 4
  ELSE IF v = "final" /\ kind = "hook" THEN 3
  ELSE ClaimedRank(kind)

\* C5 as claimed: in every script imports, then the display-confirmation
\* block, then the call-site rename, then the hook invocations, then markup.
C5_RenameBeforeHooks ==
  \A i, j \in 1..Len(trace) :
    i < j => ClaimedRank(trace[i].kind) <= ClaimedRank(trace[j].kind)

\* C5 amended: the kinds are applied in a fixed order in every script:
\* imports, the display-confirmation block, then in integrate and complete
\* the rename before the hook invocations, in final the hook invocations
\* before the rename, then (complete) the removals, then markup; every
\* finished run has applied every rule of its script.
C5_FixedOrderPerScript ==
  /\ \A i, j \in 1..Len(trace) :
       i < j => ScriptRank(variant, trace[i].kind) <= ScriptRank(variant, trace[j].kind)
  /\ \A i, j \in 1..Len(trace) :
       trace[i].kind = "rename" /\ trace[j].kind = "hook" =>
         IF variant = "final" THEN j < i ELSE i < j
  /\ (Finished =>
        /\ \E i \in 1..Len(trace) : trace[i].kind = "rename"
        /\ \E i \in 1..Len(trace) : trace[i].kind = "hook"
        /\ trace[1].kind = "import"
        /\ trace[3].kind = "logic")

\* a finished run of final in which the hooks and the rename both matched
C5_Witness ==
  /\ variant = "final"
  /\ pc = "exit"
  /\ exit = 0
  /\ trace[4].n = 1
  /\ trace[6].n = 1

\* the landmark of a script's first rule, and the three import lines of the claim
HookImportLandmark(v) == IF v = "final" THEN import_pattern ELSE ApiKeyRotationImport
ThreeImportLines ==
  <<NL>> \o ImportLine("import { useDisplayConfirmation", "from @/hooks/useDisplayConfirmation")
  \o <<NL>> \o ImportLine("import { useStorageSync", "from @/hooks/useStorageSync")
  \o <<NL>> \o ImportLine("import { usePlayerInitialization", "from @/hooks/usePlayerInitialization")
\* where the one occurrence of the landmark ends
LandmarkEnd(v, buf) == FindAll(Lit(HookImportLandmark(v)), buf, 1)[1][2] - 1

\* C6: on a buffer with the landmark import line exactly once, the
\* hook-import rule applied once leaves the landmark followed by the three
\* import lines and nothing else changed; applied again, by six (the three
\* lines twice).
C6_ThreeThenSixImports ==
  (step = 1 /\ Occ(HookImportLandmark(variant), disk) = 1) =>
     /\ content =    SubSeq(disk, 1, LandmarkEnd(variant, disk))
                  \o Copies(run, ThreeImportLines)
                  \o SubSeq(disk, LandmarkEnd(variant, disk) + 1, Len(disk))
     /\ CountNL(content) - CountNL(disk) = 3 * run

\* the rule applied twice to a buffer with one landmark
C6_Witness ==
  /\ step = 1
  /\ Occ(HookImportLandmark(variant), disk) = 1
  /\ run = 2
  /\ CountNL(content) - CountNL(disk) = 6

\* C7: on a buffer that holds the block in its original shape, the
\* display-confirmation rule of each script replaces the whole block by the
\* two lines, so the buffer loses the block's line count minus two lines.
C7_BlockBecomesTwoLines ==
  (step = 3 /\ run = 1 /\ Occ(old_display_logic, disk) = 1) =>
     /\ Occ(old_display_logic, content) = 0
     /\ ~Has(StateDecl, content)
     /\ ~Has(CancelDecl, content)
     /\ Has("const displayConfirmation = useDisplayConfirmation(", content)
     /\ CountNL(disk) - CountNL(content) = (CountNL(old_display_logic) + 1) - 2

WrittenBySteps1To4 ==
  { ThreeImportLines, <<NL>> \o component_imports, new_display_logic,
    storage_sync_addition }

NoHookTexts(buf) ==
  /\ Occ(new_display_logic, buf) = 0
  /\ ~Has("useStorageSync({", buf)
  /\ ~Has("usePlayerInitialization({", buf)

\* C9: in final, on an input without the texts of steps 3 to 5, when step 3
\* makes no replacement steps 4 and 5 leave the buffer unchanged and no hook
\* invocation appears in the output.
C9_HooksNeedTheBlockRule ==
  (variant = "final" /\ Len(trace) >= 3 /\ trace[3].n = 0 /\ NoHookTexts(start)) =>
     /\ (Len(trace) \in {4, 5} => Last(trace).n = 0 /\ content = prev)
     /\ ~Has("useStorageSync({", content)
     /\ ~Has("usePlayerInitialization({", content)
     /\ (writes = 1 => ~Has("useStorageSync({", disk)
                       /\ ~Has("usePlayerInitialization({", disk))

\* final finished on a file with the block in its original shape: step 3
\* did not match it, the imports were added, the hooks were not
C9_Witness ==
  /\ variant = "final"
  /\ pc = "exit"
  /\ exit = 0
  /\ NoHookTexts(start)
  /\ Occ(old_display_logic, start) = 1
  /\ trace[1].n = 1
  /\ trace[3].n = 0
  /\ trace[4].n = 0
  /\ trace[5].n = 0

\* C10: in a second run, on the output of a complete run of the same script,
\* every rule is a no-op (or the run errors): nothing is inserted twice.
C10_SecondRunChangesNothing ==
  (run >= 2 /\ pc = "exit" /\ exit = 0) =>
     /\ \A k \in 1..Len(trace) : trace[k].n = 0
     /\ disk = start

\* the tokens of the model's texts that spell 'displayConfirmation'
DisplayConfirmationTokens ==
  {"const displayConfirmation = useDisplayConfirmation(", CallSitePrefix,
   "isOpen={!!displayConfirmation.pendingDisplayConfirmation",
   "displayInfo={displayConfirmation.pendingDisplayConfirmation?.displayInfo || null",
   "onConfirm={displayConfirmation.handleDisplayConfirmationResponse",
   "onCancel={displayConfirmation.handleDisplayConfirmationCancel"}

MentionsDisplayConfirmation(buf) ==
  \E i \in 1..Len(buf) : buf[i] \in DisplayConfirmationTokens

\* C11: after a complete run of any script on a buffer with no occurrence
\* of displayConfirmation, the written file holds the renamed call site
\* 'displayConfirmation.handleDisplayConfirmationNeeded,' only if it also
\* holds the declaration 'const displayConfirmation = useDisplayConfirmation();'
C11_RenamedCallSiteIsDeclared ==
  (writes = 1 /\ ~MentionsDisplayConfirmation(start))
    => (Occ(<<CallSitePrefix, CallSite>>, disk) > 0
          => Occ(<<"const displayConfirmation = useDisplayConfirmation(", ")", ";">>,
                 disk) > 0)

====
